---- MODULE Spec2Model ----
(***************************************************************************)
(* Bit vectors, bit matrices and the expand-and-transpose routine of       *)
(* src/triples/bits.rs.                                                    *)
(*                                                                         *)
(* A u64 word is modelled as the set of its set bit positions (a subset    *)
(* of 0..63): xor is the symmetric difference, and is the intersection,    *)
(* or is the union, (u >> j) & 1 is membership of j, and 1 << p is {p}.    *)
(* A byte is an integer in 0..255.  Arrays and Vecs are functions on       *)
(* 0..n-1, so that the model's indices are the code's indices.             *)
(***************************************************************************)
EXTENDS Integers, Sequences, FiniteSets, TLC

VARIABLES
    x, y, z, buf, bitsOut, log,     \* the vector client
    m, o, mz, sq, et, prev, meow, mlog, \* the matrix client
    job, shared, wk, torn, firstStore, expect \* the row loop run in parallel

vecVars == <<x, y, z, buf, bitsOut, log>>

matVars == <<m, o, mz, sq, et, prev, meow, mlog>>

parVars == <<job, shared, wk, torn, firstStore, expect>>

vars == <<vecVars, matVars, parVars>>

(***************************************************************************)
(* Constants of the program.                                               *)
(***************************************************************************)
SECURITY_PARAMETER == 128

WORD_BITS == 64

BYTE_BITS == 8

WORD_BYTES == 8

SEC_PARAM_64 == (SECURITY_PARAMETER + 64 - 1) \div 64

SEC_PARAM_8 == (SECURITY_PARAMETER + 8 - 1) \div 8

(***************************************************************************)
(* Bounds of the model.                                                    *)
(***************************************************************************)
\* how many sample u64 values the random source and the byte buffers draw from
NumWords == 3

\* how many operations may be chained on the accumulator z
MaxChain == 2

\* matrices are built with heights 0 .. MaxSmallHeight and around SECURITY_PARAMETER
MaxSmallHeight == 2

\* how many sample matrix contents there are for each height
NumMats == 2

\* how many sample session identifiers there are
NumSids == 3

\* expand_transpose is called with rows in 0 .. MaxRows
MaxRows == 9

\* how many iterations of the row loop run at the same time
ParWidth == 2

\* the parallel row loop is run with rows in 1 .. ParRows
ParRows == 2

\* how many sample groups of row indices run at the same time
NumGroups == 3

(***************************************************************************)
(* Words and bytes.                                                        *)
(***************************************************************************)
Pow2(n) == 2 ^ n

\* the k-th sample u64: 0, u64::MAX, then patterns that mix low and high bits
SampleWord(k) ==
    CASE k = 0 -> {}
      [] k = 1 -> 0 .. (WORD_BITS - 1)
      [] OTHER -> { p \in 0 .. (WORD_BITS - 1) : ((p + 1) * k) % 7 < 3 }

SampleWords == { SampleWord(k) : k \in 0 .. (NumWords - 1) }

XorWord(u, v) == (u \ v) \cup (v \ u)

AndWord(u, v) == u \cap v

\* u64::to_le_bytes: byte k holds bits 8k .. 8k+7, least significant first
to_le_bytes(u) ==
    [ k \in 0 .. (WORD_BYTES - 1) |->
        LET Bit(b) == IF (BYTE_BITS * k + b) \in u THEN Pow2(b) ELSE 0
        IN  Bit(0) + Bit(1) + Bit(2) + Bit(3) + Bit(4) + Bit(5) + Bit(6) + Bit(7) ]

\* u64::from_le_bytes of an 8-byte chunk
from_le_bytes(chunk) ==
    { p \in 0 .. (WORD_BITS - 1) :
        (chunk[p \div BYTE_BITS] \div Pow2(p % BYTE_BITS)) % 2 = 1 }

\* subtle's u64::conditional_select: a ^ (mask & (a ^ b)), mask = -(choice)
u64_conditional_select(a, b, choice) ==
    LET mask == IF choice = 1 THEN 0 .. (WORD_BITS - 1) ELSE {}
    IN  XorWord(a, AndWord(mask, XorWord(a, b)))

\* subtle's ct_eq on two u64 values: Choice 1 when they are equal
ct_eq(a, b) == IF a = b THEN 1 ELSE 0

(***************************************************************************)
(* BitVector.                                                              *)
(***************************************************************************)
WordIdx == 0 .. (SEC_PARAM_64 - 1)

BitVector_zero == [ w \in WordIdx |-> {} ]

\* random(rng): every word is whatever rng.next_u64() returns
BitVector_random(draw) == [ w \in WordIdx |-> draw[w] ]

\* from_bytes decoding each chunk most significant byte first
BitVector_from_bytes_be(bytes) ==
    LET nchunks == SEC_PARAM_8 \div WORD_BYTES
        chunk(c) == [ k \in 0 .. (WORD_BYTES - 1) |->
                        bytes[WORD_BYTES * c + (WORD_BYTES - 1 - k)] ]
    IN  [ w \in WordIdx |-> IF w < nchunks THEN from_le_bytes(chunk(w)) ELSE {} ]

\* chunks_exact(8) yields Len \div 8 chunks; the zip stops at the shorter side
BitVector_from_bytes(bytes) ==
    LET nchunks == SEC_PARAM_8 \div WORD_BYTES
        chunk(c) == [ k \in 0 .. (WORD_BYTES - 1) |-> bytes[WORD_BYTES * c + k] ]
    IN  [ w \in WordIdx |-> IF w < nchunks THEN from_le_bytes(chunk(w)) ELSE {} ]

\* the iterator's items in order, as a sequence of Choice values (0 or 1)
BitVector_bits(self) ==
    [ n \in 1 .. (SEC_PARAM_64 * WORD_BITS) |->
        LET u == self[(n - 1) \div WORD_BITS]
            j == (n - 1) % WORD_BITS
        IN  ct_eq(IF j \in u THEN 1 ELSE 0, 0) ]

\* xor_mut that ors the words instead
BitVector_xor_mut_or(self, other) == [ w \in WordIdx |-> self[w] \cup other[w] ]

BitVector_xor_mut(self, other) == [ w \in WordIdx |-> XorWord(self[w], other[w]) ]

BitVector_xor(self, other) ==
    LET out == self
    IN  BitVector_xor_mut(out, other)

BitVector_and_mut(self, other) == [ w \in WordIdx |-> AndWord(self[w], other[w]) ]

BitVector_and(self, other) ==
    LET out == self
    IN  BitVector_and_mut(out, other)

\* conditional_select with the operands in the wrong order
BitVector_conditional_select_swapped(a, b, choice) ==
    [ w \in WordIdx |-> u64_conditional_select(b[w], a[w], choice) ]

BitVector_conditional_select(a, b, choice) ==
    [ w \in WordIdx |-> u64_conditional_select(a[w], b[w], choice) ]

\* the words of a vector as little-endian bytes, in word order
RowBytes(row) ==
    [ n \in 0 .. (SEC_PARAM_64 * WORD_BYTES - 1) |->
        to_le_bytes(row[n \div WORD_BYTES])[n % WORD_BYTES] ]

\* the first SEC_PARAM_8 bytes of the encoding: the [u8; SEC_PARAM_8] buffer
EncodeBuffer(v) == [ n \in 0 .. (SEC_PARAM_8 - 1) |-> RowBytes(v)[n] ]

(***************************************************************************)
(* The pseudorandom generator (ck_meow's Meow), an external sponge.  Its   *)
(* state is modelled as a running digest of everything absorbed, and what  *)
(* it squeezes as a function of that digest: a deterministic function of   *)
(* the absorbed data, which is all the program relies on.                  *)
(***************************************************************************)
\* one more byte into the digest
Absorb(st, b) == (st * 31 + b + 1) % 65521

\* absorb bytes[from], .., bytes[n - 1] of a byte string indexed from 0 (a
\* digest is never negative)
RECURSIVE AbsorbBytes(_, _, _, _)
AbsorbBytes(st, bytes, from, n) ==
    IF st < 0 \/ from >= n THEN st
    ELSE AbsorbBytes(Absorb(st, bytes[from]), bytes, from + 1, n)

\* a byte string literal as a function on 0 .. n-1
Bytes(t) == [ k \in 0 .. (Len(t) - 1) |-> t[k + 1] ]

ByteLen(bytes) == Cardinality(DOMAIN bytes)

\* b"cait-sith v0.1.0 correlated OT PRG"
PRG_CTX ==
    Bytes(<<99, 97, 105, 116, 45, 115, 105, 116, 104, 32, 118, 48, 46, 49, 46,
            48, 32, 99, 111, 114, 114, 101, 108, 97, 116, 101, 100, 32, 79, 84,
            32, 80, 82, 71>>)

\* b"sid"
LABEL_SID == Bytes(<<115, 105, 100>>)

\* b"row"
LABEL_ROW == Bytes(<<114, 111, 119>>)

Meow_new(ctx) == AbsorbBytes(1, ctx, 0, ByteLen(ctx))

\* an operation with more = false starts a new frame; more = true continues it
Meow_meta_ad(st, data, more) ==
    AbsorbBytes(IF more THEN st ELSE Absorb(st, 256), data, 0, ByteLen(data))

Meow_ad(st, data, more) ==
    AbsorbBytes(IF more THEN st ELSE Absorb(st, 257), data, 0, ByteLen(data))

\* prf fills a buffer of n bytes
Meow_prf(st, n) ==
    LET s0 == Absorb(st, 258)
    IN  [ k \in 0 .. (n - 1) |->
            (Absorb(Absorb(s0, k % 251), k \div 251) \div 3) % 256 ]

(***************************************************************************)
(* BitMatrix.                                                              *)
(***************************************************************************)
\* a Vec of n items as a function on 0 .. n-1
BitMatrix_height(self) == Cardinality(DOMAIN self)

\* from_rows copies the rows it is given, in order
BitMatrix_from_rows(rows) == [ i \in 0 .. (Len(rows) - 1) |-> rows[i + 1] ]

\* from_iter collects the vectors it is given, in order
BitMatrix_from_iter(iter) == [ i \in 0 .. (Len(iter) - 1) |-> iter[i + 1] ]

\* the items of rows(), in order
BitMatrix_rows(self) == [ n \in 1 .. BitMatrix_height(self) |-> self[n - 1] ]

Min(a, b) == IF a <= b THEN a ELSE b

\* xor_mut that keeps only the rows the zip reached
BitMatrix_xor_mut_truncating(self, other) ==
    LET zipped == Min(BitMatrix_height(self), BitMatrix_height(other))
    IN  [ i \in 0 .. (zipped - 1) |-> BitVector_xor_mut(self[i], other[i]) ]

\* for (self_i, other_i) in self.0.iter_mut().zip(other.0.iter()): the zip
\* ends with the shorter of its two sides, and the rows of self past it stay
BitMatrix_xor_mut(self, other) ==
    LET zipped == Min(BitMatrix_height(self), BitMatrix_height(other))
    IN  [ i \in DOMAIN self |->
            IF i < zipped THEN BitVector_xor_mut(self[i], other[i]) ELSE self[i] ]

BitMatrix_xor(self, other) ==
    LET out == self
    IN  BitMatrix_xor_mut(out, other)

BitMatrix_and_vec_mut(self, v) ==
    [ i \in DOMAIN self |-> BitVector_and_mut(self[i], v) ]

BitMatrix_and_vec(self, v) ==
    LET out == self
    IN  BitMatrix_and_vec_mut(out, v)

(***************************************************************************)
(* SquareBitMatrix.                                                        *)
(***************************************************************************)
NoMatrix == <<>>

\* Result<SquareBitMatrix, ()>
Err == [ ok |-> FALSE, matrix |-> NoMatrix, tried |-> FALSE ]

Ok(matrix) == [ ok |-> TRUE, matrix |-> matrix, tried |-> FALSE ]

\* try_from that only rejects a matrix that is too short
SquareBitMatrix_try_from_short(matrix) ==
    IF BitMatrix_height(matrix) < SECURITY_PARAMETER THEN Err ELSE Ok(matrix)

SquareBitMatrix_try_from(matrix) ==
    IF BitMatrix_height(matrix) # SECURITY_PARAMETER THEN Err ELSE Ok(matrix)

\* a generator kept from one call to the next instead of made anew
SharedPrefix_kept(sid) ==
    Meow_ad(Meow_meta_ad(meow, LABEL_SID, FALSE), sid, FALSE)

\* the generator every row starts from: the context, then the sid
SharedPrefix(sid) ==
    Meow_ad(Meow_meta_ad(Meow_new(PRG_CTX), LABEL_SID, FALSE), sid, FALSE)

\* the byte count rounded down
Row8_floor(rows) == rows \div 8

\* how many bytes to get rows bits
Row8(rows) == (rows + 7) \div 8

\* the row's words absorbed one after the other, each as 8 little-endian
\* bytes with more = true
RECURSIVE AbsorbWords(_, _, _)
AbsorbWords(st, row, w) ==
    IF w >= SEC_PARAM_64 THEN st
    ELSE AbsorbWords(Meow_ad(st, to_le_bytes(row[w]), TRUE), row, w + 1)

\* the bytes squeezed for one row, from a clone of the shared generator
Expand(prefix, row, row8) ==
    LET cloned == prefix
        labelled == Meow_ad(Meow_meta_ad(cloned, LABEL_ROW, FALSE), Bytes(<<>>), FALSE)
    IN  Meow_prf(AbsorbWords(labelled, row, 0), row8)

\* the bits of a byte taken most significant first
ExpandedBit_msb(expanded, i) ==
    (expanded[i \div BYTE_BITS] \div Pow2(BYTE_BITS - 1 - (i % BYTE_BITS))) % 2

\* (expanded[i / 8] >> (i % 8)) & 1
ExpandedBit(expanded, i) == (expanded[i \div BYTE_BITS] \div Pow2(i % BYTE_BITS)) % 2

\* a plain assignment in place of |=
OrAssign_overwrite(word, shifted) == shifted

\* word |= shifted
OrAssign(word, shifted) == word \cup shifted

\* u64::from(bit) << (j % 64)
Shifted(bit, j) == IF bit = 1 THEN {j % WORD_BITS} ELSE {}

\* the state of a call: the output buffer, and whether an index was out of
\* range (the call panicked)
Running(out) == [ panic |-> FALSE, out |-> out ]

Panicked == [ panic |-> TRUE, out |-> NoMatrix ]

\* for i in from..rows { out.0[i].0[j / 64] |= bit << (j % 64) }
RECURSIVE Scatter(_, _, _, _, _)
Scatter(st, expanded, j, from, rows) ==
    IF st.panic \/ from >= rows THEN st
    ELSE IF \/ from \notin DOMAIN st.out
            \/ (j \div WORD_BITS) \notin WordIdx
            \/ (from \div BYTE_BITS) \notin DOMAIN expanded
         THEN Panicked
         ELSE LET shifted == Shifted(ExpandedBit(expanded, from), j)
              IN  Scatter([st EXCEPT !.out[from][j \div WORD_BITS] = OrAssign(@, shifted)],
                          expanded, j, from + 1, rows)

\* the iterations j = lo .. hi-1 of
\* for (j, row) in self.matrix.0.iter().enumerate(), in order; a range is
\* walked as its lower half, then its upper half
RECURSIVE RowLoop(_, _, _, _, _, _)
RowLoop(st, matrix, prefix, lo, hi, rows) ==
    IF st.panic \/ lo >= hi THEN st
    ELSE IF hi - lo = 1
         THEN Scatter(st, Expand(prefix, matrix[lo], Row8(rows)), lo, 0, rows)
         ELSE LET mid == (lo + hi) \div 2
              IN  RowLoop(RowLoop(st, matrix, prefix, lo, mid, rows),
                          matrix, prefix, mid, hi, rows)

SquareBitMatrix_expand_transpose(self, sid, rows) ==
    LET out == [ i \in 0 .. (rows - 1) |-> BitVector_zero ]
    IN  RowLoop(Running(out), self.matrix, SharedPrefix(sid), 0,
                BitMatrix_height(self.matrix), rows)

(***************************************************************************)
(* The vector operations as steps of a client holding two operands x and y *)
(* and an accumulator z.  log names the calls that produced z (or bitsOut, *)
(* or buf) from the current x and y; a name that starts with z_ is a call  *)
(* on the accumulator.                                                     *)
(***************************************************************************)
NoBits == <<>>

\* a buffer nobody wrote to: [0u8; SEC_PARAM_8]
NoBuffer == [ n \in 0 .. (SEC_PARAM_8 - 1) |-> 0 ]

NoCall == [ sid |-> <<>>, rows |-> 0 - 1, panic |-> FALSE, out |-> NoMatrix ]

NoSquare == [ ok |-> FALSE, matrix |-> NoMatrix, tried |-> FALSE ]

NoJob == [ sid |-> <<>>, rows |-> 0, group |-> {} ]

ParIdle ==
    /\ job = NoJob
    /\ shared = NoMatrix
    /\ wk = <<>>
    /\ torn = FALSE
    /\ firstStore = 0 - 1
    /\ expect = NoMatrix

MatIdle ==
    /\ m = NoMatrix
    /\ o = NoMatrix
    /\ mz = NoMatrix
    /\ sq = NoSquare
    /\ et = NoCall
    /\ prev = NoCall
    /\ meow = 0
    /\ mlog = <<>>

VecIdle ==
    /\ x = BitVector_zero
    /\ y = BitVector_zero
    /\ z = BitVector_zero
    /\ buf = NoBuffer
    /\ bitsOut = NoBits
    /\ log = <<>>

VecInit ==
    /\ MatIdle
    /\ ParIdle
    /\ x = BitVector_zero
    /\ y = BitVector_zero
    /\ z = BitVector_zero
    /\ buf = NoBuffer
    /\ bitsOut = NoBits
    /\ log = <<>>

\* a client that takes new operands drops what it computed from the old ones
DropResults ==
    /\ z' = BitVector_zero
    /\ buf' = NoBuffer
    /\ bitsOut' = NoBits
    /\ log' = <<>>

\* x = BitVector::zero()
NewZeroX ==
    /\ x' = BitVector_zero
    /\ y' = y
    /\ DropResults
    /\ UNCHANGED <<matVars, parVars>>

\* x = BitVector::random(rng)
NewRandomX ==
    \E d \in [ WordIdx -> SampleWords ] :
        /\ x' = BitVector_random(d)
        /\ y' = y
        /\ DropResults
        /\ UNCHANGED <<matVars, parVars>>

\* y = BitVector::random(rng)
NewRandomY ==
    \E d \in [ WordIdx -> SampleWords ] :
        /\ y' = BitVector_random(d)
        /\ x' = x
        /\ DropResults
        /\ UNCHANGED <<matVars, parVars>>

\* y = x (BitVector is Copy)
CopyXY ==
    /\ y' = x
    /\ x' = x
    /\ DropResults
    /\ UNCHANGED <<matVars, parVars>>

\* buf = the little-endian encoding of x
Encode ==
    /\ buf' = EncodeBuffer(x)
    /\ log' = <<"encode">>
    /\ z' = BitVector_zero
    /\ bitsOut' = NoBits
    /\ UNCHANGED <<x, y>>
    /\ UNCHANGED <<matVars, parVars>>

\* z = BitVector::from_bytes(&buf)
FromBytes ==
    /\ Len(log) < MaxChain
    /\ z' = BitVector_from_bytes(buf)
    /\ log' = Append(log, "from_bytes")
    /\ UNCHANGED <<x, y, buf, bitsOut>>
    /\ UNCHANGED <<matVars, parVars>>

\* bitsOut = x.bits().collect()
Bits ==
    /\ bitsOut' = BitVector_bits(x)
    /\ log' = <<"bits">>
    /\ z' = BitVector_zero
    /\ buf' = NoBuffer
    /\ UNCHANGED <<x, y>>
    /\ UNCHANGED <<matVars, parVars>>

\* z = x.xor(&y)
Xor ==
    /\ z' = BitVector_xor(x, y)
    /\ log' = <<"xor">>
    /\ buf' = NoBuffer
    /\ bitsOut' = NoBits
    /\ UNCHANGED <<x, y>>
    /\ UNCHANGED <<matVars, parVars>>

\* z = z.xor(&y)
XorAgain ==
    /\ Len(log) < MaxChain
    /\ z' = BitVector_xor(z, y)
    /\ log' = Append(log, "z_xor")
    /\ UNCHANGED <<x, y, buf, bitsOut>>
    /\ UNCHANGED <<matVars, parVars>>

\* z.xor_mut(&y)
XorMut ==
    /\ Len(log) < MaxChain
    /\ z' = BitVector_xor_mut(z, y)
    /\ log' = Append(log, "z_xor_mut")
    /\ UNCHANGED <<x, y, buf, bitsOut>>
    /\ UNCHANGED <<matVars, parVars>>

\* z = x.and(&y)
And ==
    /\ z' = BitVector_and(x, y)
    /\ log' = <<"and">>
    /\ buf' = NoBuffer
    /\ bitsOut' = NoBits
    /\ UNCHANGED <<x, y>>
    /\ UNCHANGED <<matVars, parVars>>

\* z.and_mut(&y)
AndMut ==
    /\ Len(log) < MaxChain
    /\ z' = BitVector_and_mut(z, y)
    /\ log' = Append(log, "z_and_mut")
    /\ UNCHANGED <<x, y, buf, bitsOut>>
    /\ UNCHANGED <<matVars, parVars>>

\* z = BitVector::conditional_select(&x, &y, choice)
Select ==
    \E choice \in {0, 1} :
        /\ z' = BitVector_conditional_select(x, y, choice)
        /\ log' = <<IF choice = 1 THEN "select_true" ELSE "select_false">>
        /\ buf' = NoBuffer
        /\ bitsOut' = NoBits
        /\ UNCHANGED <<x, y>>
        /\ UNCHANGED <<matVars, parVars>>

VecNext ==
    \/ NewZeroX
    \/ NewRandomX
    \/ NewRandomY
    \/ CopyXY
    \/ Encode
    \/ FromBytes
    \/ Bits
    \/ Xor
    \/ XorAgain
    \/ XorMut
    \/ And
    \/ AndMut
    \/ Select

SpecVec == VecInit /\ [][VecNext]_vars

(***************************************************************************)
(* Claims about BitVector, checked under SpecVec.                          *)
(***************************************************************************)
AllOnes == 0 .. (WORD_BITS - 1)

\* bit p of word w of a vector
BitAt(v, w, p) == p \in v[w]

\* a vector whose words differ and are neither 0 nor u64::MAX everywhere
Mixed(v) == \E w \in WordIdx : v[w] # {} /\ v[w] # AllOnes

\* C3: zero().bits() yields exactly SECURITY_PARAMETER values, all of them
\* false (Choice 0), and bits() of any vector yields exactly
\* SECURITY_PARAMETER values.
C3_BitsOfZeroAreFalse ==
    log = <<"bits">> =>
        /\ Len(bitsOut) = SECURITY_PARAMETER
        /\ x = BitVector_zero => \A n \in 1 .. Len(bitsOut) : bitsOut[n] = 0

\* C5: conditional_select(a, b, false) is a and conditional_select(a, b, true)
\* is b, word for word.
C5_Select ==
    /\ log = <<"select_false">> => \A w \in WordIdx : z[w] = x[w]
    /\ log = <<"select_true">> => \A w \in WordIdx : z[w] = y[w]

C5_Witness ==
    /\ log = <<"select_true">>
    /\ Mixed(x)
    /\ Mixed(y)
    /\ \A w \in WordIdx : x[w] # y[w]
    /\ z = y

\* C6: encoding the words of a vector in order as little-endian bytes into a
\* buffer of SEC_PARAM_8 bytes and decoding the buffer with from_bytes gives
\* back the vector, every word equal.
C6_RoundTrip ==
    log = <<"encode", "from_bytes">> =>
        /\ DOMAIN buf = 0 .. (SEC_PARAM_8 - 1)
        /\ \A w \in WordIdx : z[w] = x[w]

C6_Witness ==
    /\ log = <<"encode", "from_bytes">>
    /\ Mixed(x)
    /\ x[0] # x[1]
    /\ z = x

\* the two value-form xor calls and the in-place one
IsXorStep == log' # log /\ log' # <<>> /\ log'[Len(log')] \in {"xor", "z_xor", "z_xor_mut"}

\* C7: a.xor(b).xor(b) = a and a.xor(a) = zero(); the value form leaves both
\* operands as they were and xor_mut changes only its receiver.
C7_XorSelfInverse ==
    /\ [](log \in {<<"xor", "z_xor">>, <<"xor", "z_xor_mut">>} => z = x)
    /\ []((log = <<"xor">> /\ y = x) => z = BitVector_zero)
    /\ [][IsXorStep => (x' = x /\ y' = y)]_vars

C7_Witness ==
    /\ log = <<"xor", "z_xor">>
    /\ Mixed(x)
    /\ Mixed(y)
    /\ x # y
    /\ z = x


(***************************************************************************)
(* The matrix operations as steps of a client holding two matrices m and   *)
(* o, an accumulator mz, the result sq of the latest try_from and the      *)
(* results et and prev of the latest two calls of expand_transpose on it.  *)
(* mlog names the calls that produced mz (or sq and et) from the current   *)
(* m and o.                                                                *)
(***************************************************************************)
\* the i-th row of the p-th sample content: all zero for p = 0, else sample
\* words with bit i flipped, so that no two rows are equal
SampleRow(i, p) ==
    IF p = 0 THEN BitVector_zero
    ELSE [ w \in WordIdx |->
            IF w = (i \div WORD_BITS) % SEC_PARAM_64
            THEN XorWord(SampleWord((i + p) % NumWords), {i % WORD_BITS})
            ELSE SampleWord((i + p + w) % NumWords) ]

SampleRows(h, p) == [ n \in 1 .. h |-> SampleRow(n - 1, p) ]

SampleHeights ==
    (0 .. MaxSmallHeight) \cup ((SECURITY_PARAMETER - 1) .. (SECURITY_PARAMETER + 1))

\* the k-th sample session identifier: b"", b"test", b"test2", then one byte
SampleSid(k) ==
    CASE k = 0 -> Bytes(<<>>)
      [] k = 1 -> Bytes(<<116, 101, 115, 116>>)
      [] k = 2 -> Bytes(<<116, 101, 115, 116, 50>>)
      [] OTHER -> Bytes(<<k % 256>>)

SampleSids == { SampleSid(k) : k \in 0 .. (NumSids - 1) }

MatInit ==
    /\ VecIdle
    /\ MatIdle
    /\ ParIdle

\* a client that takes new matrices drops what it computed from the old ones
DropMatResults ==
    /\ mz' = NoMatrix
    /\ sq' = NoSquare
    /\ et' = NoCall
    /\ prev' = NoCall
    /\ meow' = 0
    /\ mlog' = <<>>

\* m = BitMatrix::from_rows(rows); the client builds its matrices before it
\* combines them
FromRows ==
    \E h \in SampleHeights, p \in 0 .. (NumMats - 1) :
        /\ mlog = <<>>
        /\ m' = BitMatrix_from_rows(SampleRows(h, p))
        /\ o' = o
        /\ DropMatResults
        /\ UNCHANGED <<vecVars, parVars>>

\* o = rows.into_iter().collect()
Collect ==
    \E h \in SampleHeights, p \in 0 .. (NumMats - 1) :
        /\ mlog = <<>>
        /\ o' = BitMatrix_from_iter(SampleRows(h, p))
        /\ m' = m
        /\ DropMatResults
        /\ UNCHANGED <<vecVars, parVars>>

\* mz = m.clone()
MatClone ==
    /\ mz' = m
    /\ mlog' = <<"clone">>
    /\ sq' = NoSquare
    /\ et' = NoCall
    /\ prev' = NoCall
    /\ meow' = 0
    /\ UNCHANGED <<m, o>>
    /\ UNCHANGED <<vecVars, parVars>>

\* mz = m.xor(&o)
MatXor ==
    /\ mz' = BitMatrix_xor(m, o)
    /\ mlog' = <<"xor">>
    /\ sq' = NoSquare
    /\ et' = NoCall
    /\ prev' = NoCall
    /\ meow' = 0
    /\ UNCHANGED <<m, o>>
    /\ UNCHANGED <<vecVars, parVars>>

\* mz.xor_mut(&o)
MatXorMut ==
    /\ mlog \in {<<"clone">>, <<"xor">>}
    /\ mz' = BitMatrix_xor_mut(mz, o)
    /\ mlog' = Append(mlog, "z_xor_mut")
    /\ UNCHANGED <<m, o, sq, et, prev, meow>>
    /\ UNCHANGED <<vecVars, parVars>>

\* mz = m.and_vec(&v), v a row of o
MatAndVec ==
    \E i \in DOMAIN o :
        /\ i <= MaxSmallHeight
        /\ mz' = BitMatrix_and_vec(m, o[i])
        /\ mlog' = <<"and_vec">>
        /\ sq' = NoSquare
        /\ et' = NoCall
        /\ prev' = NoCall
        /\ meow' = 0
        /\ UNCHANGED <<m, o>>
        /\ UNCHANGED <<vecVars, parVars>>

\* sq = SquareBitMatrix::try_from(m.clone())
TryFrom ==
    /\ sq' = [ SquareBitMatrix_try_from(m) EXCEPT !.tried = TRUE ]
    /\ mlog' = <<"try_from">>
    /\ mz' = NoMatrix
    /\ et' = NoCall
    /\ prev' = NoCall
    /\ meow' = 0
    /\ UNCHANGED <<m, o>>
    /\ UNCHANGED <<vecVars, parVars>>

\* what a call of expand_transpose leaves: its arguments and its outcome
Call(sid, rows) ==
    LET r == SquareBitMatrix_expand_transpose(sq, sid, rows)
    IN  [ sid |-> sid, rows |-> rows, panic |-> r.panic, out |-> r.out ]

\* et = sq.unwrap().expand_transpose(sid, rows)
ExpandTranspose ==
    \E sid \in SampleSids, rows \in 0 .. MaxRows :
        /\ sq.ok
        /\ et = NoCall
        /\ et' = Call(sid, rows)
        /\ prev' = et
        /\ meow' = SharedPrefix(sid)
        /\ mlog' = <<"try_from", "expand_transpose">>
        /\ UNCHANGED <<m, o, mz, sq>>
        /\ UNCHANGED <<vecVars, parVars>>

\* the same call once more, to compare: prev is the call before it
ExpandTransposeAgain ==
    /\ sq.ok
    /\ et # NoCall
    /\ prev = NoCall
    /\ et' = Call(et.sid, et.rows)
    /\ prev' = et
    /\ meow' = SharedPrefix(et.sid)
    /\ mlog' = <<"try_from", "expand_transpose", "expand_transpose">>
    /\ UNCHANGED <<m, o, mz, sq>>
    /\ UNCHANGED <<vecVars, parVars>>

\* a client that combines matrices
MatNext ==
    \/ FromRows
    \/ Collect
    \/ MatClone
    \/ MatXor
    \/ MatXorMut
    \/ MatAndVec
    \/ TryFrom

SpecMat == MatInit /\ [][MatNext]_vars

\* a client that builds a square matrix and expands it
ExpNext ==
    \/ FromRows
    \/ TryFrom
    \/ ExpandTranspose
    \/ ExpandTransposeAgain

SpecExp == MatInit /\ [][ExpNext]_vars

(***************************************************************************)
(* The row loop of expand_transpose with its iterations run at the same    *)
(* time on one output buffer and nothing to order them.  The update        *)
(*     out.0[i].0[j / 64] |= bit << (j % 64)                               *)
(* of an iteration is a load of the word and a store of the word or-ed     *)
(* with the bit, and what another iteration does may fall between them.    *)
(* The iterations of job.group run at the same time; the others have run   *)
(* before, one after the other.                                            *)
(***************************************************************************)
\* the k-th sample group: ParWidth neighbouring row indices, near and across
\* the boundary between word 0 and word 1
SampleGroup(k) == { (61 + 2 * k + d) % SECURITY_PARAMETER : d \in 0 .. (ParWidth - 1) }

SetMin(S) == CHOOSE a \in S : \A b \in S : a <= b

SetMax(S) == CHOOSE a \in S : \A b \in S : a >= b

\* the row loop from row lo on, one iteration after the other, without the
\* iterations of skip
RECURSIVE RowLoopWithout(_, _, _, _, _, _)
RowLoopWithout(st, matrix, prefix, lo, rows, skip) ==
    IF skip = {} THEN RowLoop(st, matrix, prefix, lo, BitMatrix_height(matrix), rows)
    ELSE LET a == SetMin(skip)
         IN  RowLoopWithout(RowLoop(st, matrix, prefix, lo, a, rows),
                            matrix, prefix, a + 1, rows, skip \ {a})

\* the square matrix the parallel loop runs on
ParSquare == SquareBitMatrix_try_from(BitMatrix_from_rows(SampleRows(SECURITY_PARAMETER, 1)))

\* the session identifier the parallel loop runs with: b"test"
ParSid == Bytes(<<116, 101, 115, 116>>)

ParInit ==
    /\ VecIdle
    /\ m = BitMatrix_from_rows(SampleRows(SECURITY_PARAMETER, 1))
    /\ o = NoMatrix
    /\ mz = NoMatrix
    /\ sq = [ ParSquare EXCEPT !.tried = TRUE ]
    /\ et = NoCall
    /\ prev = NoCall
    /\ mlog = <<"try_from">>
    /\ \E rows \in 1 .. ParRows, k \in 0 .. (NumGroups - 1) :
          /\ job = [ sid |-> ParSid, rows |-> rows, group |-> SampleGroup(k) ]
          /\ meow = SharedPrefix(ParSid)
          /\ shared = RowLoopWithout(Running([ i \in 0 .. (rows - 1) |-> BitVector_zero ]),
                                     ParSquare.matrix, SharedPrefix(ParSid), 0, rows,
                                     SampleGroup(k)).out
          /\ wk = [ j \in SampleGroup(k) |-> [ i |-> 0, phase |-> "load", tmp |-> {} ] ]
          /\ expect = SquareBitMatrix_expand_transpose(ParSquare, ParSid, rows).out
    /\ torn = FALSE
    /\ firstStore = 0 - 1

\* what iteration j ors into row i
ParShifted(j, i) ==
    Shifted(ExpandedBit(Expand(meow, sq.matrix[j], Row8(job.rows)), i), j)

\* iteration j loads the word of its next update
Load(j) ==
    /\ wk[j].phase = "load"
    /\ wk' = [ wk EXCEPT ![j].phase = "store",
                         ![j].tmp = shared[wk[j].i][j \div WORD_BITS] ]
    /\ UNCHANGED <<job, shared, torn, firstStore, expect>>
    /\ UNCHANGED <<vecVars, matVars>>

\* iteration j stores the word it loaded, or-ed with its bit
Store(j) ==
    /\ wk[j].phase = "store"
    /\ LET i == wk[j].i
           w == j \div WORD_BITS
       IN  /\ shared' = [ shared EXCEPT ![i][w] = OrAssign(wk[j].tmp, ParShifted(j, i)) ]
           /\ torn' = (torn \/ shared[i][w] # wk[j].tmp)
           /\ wk' = [ wk EXCEPT ![j].i = i + 1,
                                ![j].tmp = {},
                                ![j].phase = IF i + 1 >= job.rows THEN "done" ELSE "load" ]
    /\ firstStore' = IF firstStore < 0 THEN j ELSE firstStore
    /\ UNCHANGED <<job, expect>>
    /\ UNCHANGED <<vecVars, matVars>>

ParNext ==
    \/ \E j \in DOMAIN wk : Load(j)
    \/ \E j \in DOMAIN wk : Store(j)

SpecPar == ParInit /\ [][ParNext]_vars

AllDone == job # NoJob /\ \A j \in DOMAIN wk : wk[j].phase = "done"

OnlyOwnBit(j) ==
    \A i \in DOMAIN shared : \A w \in WordIdx :
        XorWord(shared'[i][w], shared[i][w]) \subseteq
            (IF w = j \div WORD_BITS THEN {j % WORD_BITS} ELSE {})

XorOf(a, b) ==
    [ w \in WordIdx |-> { p \in 0 .. (WORD_BITS - 1) : BitAt(a, w, p) # BitAt(b, w, p) } ]

\* C2: try_from succeeds exactly when the height is SECURITY_PARAMETER; on
\* success the wrapped matrix is the input, rows and order kept, and on
\* failure there is an error and no square matrix.
C2_TryFrom ==
    sq.tried =>
        /\ sq.ok <=> (BitMatrix_height(m) = SECURITY_PARAMETER)
        /\ sq.ok => sq.matrix = m
        /\ ~sq.ok => sq.matrix = NoMatrix
        /\ BitMatrix_height(m) \in {SECURITY_PARAMETER - 1, SECURITY_PARAMETER + 1}
              => ~sq.ok

C2_Witness ==
    /\ sq.tried
    /\ sq.ok
    /\ BitMatrix_height(sq.matrix) = SECURITY_PARAMETER
    /\ \E i \in DOMAIN m : Mixed(m[i])

\* mz is self xored with o: self's height, the rows below both heights
\* xored, the rows of self past o's height kept
XoredFrom(self) ==
    /\ DOMAIN mz = DOMAIN self
    /\ \A i \in DOMAIN mz :
          mz[i] = IF i < BitMatrix_height(o) THEN XorOf(self[i], o[i]) ELSE self[i]

IsMatXorStep == mlog' # mlog /\ mlog' # <<>> /\ mlog'[Len(mlog')] \in {"xor", "z_xor_mut"}

\* C10: xor of matrices of unequal heights does not fail and zips to the
\* shorter one: row i of other is xored into row i of self for i below both
\* heights only, self keeps its height and its other rows, other is
\* unchanged, and the value form returns a matrix of self's height and
\* changes neither operand.
C10_XorZipsToShorter ==
    /\ [](mlog = <<"clone", "z_xor_mut">> => XoredFrom(m))
    /\ [](mlog = <<"xor">> => XoredFrom(m))
    /\ [][IsMatXorStep => (m' = m /\ o' = o)]_vars
    /\ [][(IsMatXorStep /\ mlog' # <<"xor">>) => DOMAIN mz' = DOMAIN mz]_vars

C10_Witness ==
    /\ mlog = <<"clone", "z_xor_mut">>
    /\ BitMatrix_height(m) > BitMatrix_height(o)
    /\ BitMatrix_height(o) > 0
    /\ mz # m
    /\ BitMatrix_height(mz) = BitMatrix_height(m)

(***************************************************************************)
(* Claims about expand_transpose, checked under SpecExp.                   *)
(***************************************************************************)
\* the bytes the generator gives for input row j in the latest call
Squeezed(j) == Expand(SharedPrefix(et.sid), sq.matrix[j], (et.rows + 7) \div 8)

\* bit i of a byte string: byte i / 8, bit position i % 8
BitOfBytes(bytes, i) == (bytes[i \div 8] \div Pow2(i % 8)) % 2 = 1

\* C1: the output is the transpose of the rows' expansions: bit j of output
\* row i (word j / 64, position j % 64) is bit i of the bytes squeezed for
\* input row j, for i below rows and j below SECURITY_PARAMETER, and no other
\* bit of the output is set.
C1_Transpose ==
    (et # NoCall /\ ~et.panic) =>
        /\ DOMAIN et.out = 0 .. (et.rows - 1)
        /\ \A j \in 0 .. (SECURITY_PARAMETER - 1) :
              LET bytes == Squeezed(j)
              IN  \A i \in 0 .. (et.rows - 1) :
                      BitAt(et.out[i], j \div 64, j % 64) <=> BitOfBytes(bytes, i)
        /\ \A i \in DOMAIN et.out : \A w \in WordIdx : \A p \in et.out[i][w] :
              64 * w + p < SECURITY_PARAMETER

C1_Witness ==
    /\ et # NoCall
    /\ ~et.panic
    /\ et.rows = MaxRows
    /\ \E i \in DOMAIN sq.matrix : Mixed(sq.matrix[i])
    /\ \E i \in DOMAIN et.out : Mixed(et.out[i])
    /\ et.out[MaxRows - 1] # BitVector_zero

\* C4: on a square matrix made by try_from, expand_transpose does not fail
\* for any rows, 0 and non-multiples of 8 included: every index is in range,
\* and the result has rows rows.
C4_NoFailure ==
    et # NoCall =>
        /\ BitMatrix_height(sq.matrix) = SECURITY_PARAMETER
        /\ ~et.panic
        /\ BitMatrix_height(et.out) = et.rows

C4_Witness ==
    /\ et # NoCall
    /\ et.rows % 8 # 0
    /\ et.rows > 8
    /\ ~et.panic
    /\ BitMatrix_height(et.out) = et.rows

IsExpandStep == et' # NoCall /\ prev' = et

====
